---- MODULE Spec2Model ----
(***************************************************************************)
(* Multi-timeframe, candle-aligned scheduler of src/src/engine/main.py     *)
(* (class MultiTimeframeScheduler) together with the candle aligner        *)
(* (is_candle_closed, get_next_candle_time).                               *)
(*                                                                         *)
(* Time is wall-clock time in whole seconds counted from midnight of the   *)
(* day the model starts in; datetime.now() reads the variable now.         *)
(***************************************************************************)
EXTENDS Integers, Sequences, FiniteSets, TLC

(* ------------------------------------------------------------------ *)
(* Civil time, as datetime gives it                                     *)
(* ------------------------------------------------------------------ *)

\* timedelta(minutes=1) in seconds
SecondsPerMinute == 60

\* now.hour * 60 + now.minute
MinutesPerHour == 60

\* now.hour ranges over 0..23
HoursPerDay == 24

MinutesPerDay == HoursPerDay * MinutesPerHour

\* datetime.hour and datetime.minute of an instant
HourOf(t) == (t \div (SecondsPerMinute * MinutesPerHour)) % HoursPerDay

MinuteOf(t) == (t \div SecondsPerMinute) % MinutesPerHour

\* the absolute minute an instant lies in (used to name candle boundaries)
AbsMinute(t) == t \div SecondsPerMinute

\* minutes_since_midnight = now.hour * 60 + now.minute
MinutesSinceMidnight(t) == HourOf(t) * MinutesPerHour + MinuteOf(t)

\* a candle check whose timeframes count from one minute before midnight
IsCandleClosedOffByOne(t, T) == (MinutesSinceMidnight(t) + 1) % T = 0

\* a candle check that passes at every instant
AlwaysClosed(t, T) == TRUE

\* is_candle_closed(timeframe_minutes), evaluated at instant t
is_candle_closed(t, T) == MinutesSinceMidnight(t) % T = 0

\* minutes_until_next computed as the distance to the nearest multiple at or after
\* now (0 on a boundary), without the fallback to a full timeframe
MinutesUntilNextOrNow(t, T) == (T - (MinutesSinceMidnight(t) % T)) % T

\* minutes_until_next of get_next_candle_time, with its == 0 fallback
MinutesUntilNext(t, T) ==
    LET d == T - (MinutesSinceMidnight(t) % T)
    IN  IF d = 0 THEN T ELSE d

\* the start of the timeframe's period that instant t lies in, seconds kept: a time
\* at or before t
CurrentCandleTime(t, T) == t - (MinutesSinceMidnight(t) % T) * SecondsPerMinute

\* the next closure time cut to the start of its minute
NextCandleTimeTruncated(t, T) ==
    (AbsMinute(t) + MinutesUntilNext(t, T)) * SecondsPerMinute

\* get_next_candle_time(timeframe_minutes), evaluated at instant t:
\* now + timedelta(minutes=minutes_until_next)
get_next_candle_time(t, T) == t + MinutesUntilNext(t, T) * SecondsPerMinute

(* ------------------------------------------------------------------ *)
(* Bounds of the model                                                  *)
(* ------------------------------------------------------------------ *)

\* seconds of model time after StartTime that are explored
Horizon == 122

\* records in the trade log beyond which no further BUY or SELL result is explored
MaxLog == 2

\* add_strategy calls made after start_scheduler has begun, in one run
MaxLateAdds == 1

\* trade-log reads/writes that fail in one run
MaxIoFailures == 1

\* 09:03:00, the minute the scheduler object is constructed in
StartTime == (9 * MinutesPerHour + 3) * SecondsPerMinute

EndTime == StartTime + Horizon

\* seconds of model time a pass of the loop may still take once a stop was requested
DrainTime == 250

\* the instant no step of the loop goes beyond: the horizon while the scheduler is to
\* keep running, and the time the last pass needs after a stop request
Deadline(is_running) == IF is_running THEN EndTime ELSE EndTime + DrainTime

\* seconds past StartMinute:00 at which the scheduler object is constructed
StartSeconds == {0, 59}

\* seconds one call of a strategy function takes (data fetch included)
Durations == {0, SecondsPerMinute + 1}

\* seconds the logging between two clock reads of one dispatch takes
Latencies == {0, 1}

(* ------------------------------------------------------------------ *)
(* Inputs of add_strategy                                               *)
(* ------------------------------------------------------------------ *)

Names == {"A", "B"}

\* the (strategy_func, symbols, timeframe_minutes) triples explored
Registrations ==
    { [function |-> "moving_average_crossover_strategy",
       symbols |-> <<"XAUUSD">>, timeframe |-> 1],
      [function |-> "supertrend_rsi_strategy",
       symbols |-> <<"XAUUSD", "EURUSD">>, timeframe |-> 2] }

(* ------------------------------------------------------------------ *)
(* The strategy functions, seen from the scheduler                      *)
(* ------------------------------------------------------------------ *)

\* time.sleep(1) of the main loop
SleepSeconds == 1

\* an executor without any worker
NoWorkers == Cardinality({})

\* ThreadPoolExecutor(max_workers=10)
max_workers == 10

\* slow_period + 10 rows are fetched by strategy1; str(df.index[-1]) is the
\* label of the last row of the RangeIndex
slow_period == 20

LastIndex == slow_period + 10 - 1

\* the keys of timeframe_map
SupportedTimeframes == {1, 5, 15, 30, 60, 240, 1440}

\* the default of timeframe_map.get (mt5.TIMEFRAME_M5, in minutes)
DefaultTimeframe == 5

\* _get_mt5_timeframe: a provider timeframe, named by its length in minutes
get_mt5_timeframe(minutes) ==
    IF minutes \in SupportedTimeframes THEN minutes ELSE DefaultTimeframe

\* open time (absolute minute) of the provider's latest candle of timeframe P
LatestCandle(t, P) == (AbsMinute(t) \div P) * P

\* the signals supertrend_rsi_strategy builds signal_data for
Actionable == {"BUY", "SELL", "CLOSE"}

\* the "signal" values moving_average_crossover_strategy returns
MAKinds == {"BUY", "SELL", "HOLD", "NO_SIGNAL", "NO_DATA", "ERROR"}

\* the "signal" values supertrend_rsi_strategy returns ("None": it returns None)
STKinds == {"BUY", "SELL", "CLOSE", "None", "NO_DATA", "ERROR"}

KindsOf(function) ==
    IF function = "moving_average_crossover_strategy" THEN MAKinds ELSE STKinds

\* the "timestamp" field of a result: <<>> when the dict has none
TimestampOf(function, kind, t, P) ==
    IF function = "moving_average_crossover_strategy"
    THEN IF kind \in {"BUY", "SELL", "HOLD"} THEN <<"index", LastIndex>> ELSE <<>>
    ELSE IF kind \in Actionable THEN <<"time", LatestCandle(t, P)>> ELSE <<>>

\* the result of strategy_func(symbol, mt5_timeframe) returning at instant t
StrategyResult(function, kind, t, P) ==
    [signal |-> kind, timestamp |-> TimestampOf(function, kind, t, P)]

(* ------------------------------------------------------------------ *)
(* State                                                                *)
(* ------------------------------------------------------------------ *)

VARIABLES
    now,            \* the wall clock, datetime.now()
    running,        \* self.running
    strategies,     \* self.strategies: the dict, as the sequence of its values in insertion order
    trade_log,      \* the content of trade_log.json
    pc,             \* where the thread inside start_scheduler is
    current_time,   \* start_scheduler's local current_time
    iter_size,      \* size of the dict when the for loop's iterator was made
    idx,            \* position of the for loop in self.strategies.items()
    info,           \* the for loop's (name, info) pair of a dispatch in progress
    run,            \* run_strategy_threaded's locals: strategy_func, symbols, timeframe
    sym,            \* position of run_strategy_threaded's loop over symbols
    exit_cause,     \* why the while loop of start_scheduler was left
    io_failures,    \* number of failed trade-log reads/writes so far
    late_adds,      \* number of add_strategy calls made after start_scheduler began
    started_at,     \* history: when start_scheduler computed the first next_execution
    fired,          \* history: (name, boundary minute) pairs the strategy was executed for
    double_fired,   \* history: (name, boundary) pairs executed a second time
    evaluated,      \* history: symbols strategy_func was called for in the current run
    last_eval,      \* history: the symbol evaluation just made
    last_add,       \* history: the add_strategy call just made
    due,            \* history: names due when the current pass read current_time
    dispatched,     \* history: names run_strategy_threaded was called for in the current pass
    err_at,         \* history: first symbol evaluation of the current pass that raised
    log_err,        \* history: latest log_trade call of the current pass that failed
    at_t,           \* aligner check: the instant
    at_T,           \* aligner check: the timeframe
    at_res,         \* aligner check: get_next_candle_time's result, <<>> before the call
    at_closed,      \* aligner check: is_candle_closed's result, <<>> before the call
    lt_pc,          \* concurrent log_trade calls: where each calling thread is
    lt_trades,      \* concurrent log_trade calls: each thread's local list trades
    lt_data,        \* concurrent log_trade calls: each thread's argument trade_data
    g_variant,      \* dedup gate: the module whose check_if_signal_already_logged is used
    g_file,         \* dedup gate: the content of the strategy's signal log file
    g_file0,        \* dedup gate, history: the content of the file before the first call
    g_seen,         \* dedup gate, history: the signals put through the gate so far
    g_answers,      \* dedup gate, history: what check_if_signal_already_logged returned
    w_pc,           \* concurrent gate: where each worker is in "check, then save"
    w_existing,     \* concurrent gate: each worker's local list existing_signals
    w_signal,       \* concurrent gate: the signal both workers hold, <<>> when none
    c_pc,           \* construction: whether __init__ has run on the directory examined
    c_file,         \* construction: trade_log.json as __init__ finds it, <<>> when absent
    p_init,         \* strategy call: whether mt5.initialize() succeeds
    p_rates,        \* strategy call: what mt5.copy_rates_from_pos returns
    p_pattern,      \* strategy call: what the last two candles' moving averages show
    s_result        \* strategy call: the returned dict, <<>> before the call

progVars == <<now, running, strategies, trade_log, pc, current_time, iter_size, idx,
              info, run, sym, exit_cause, io_failures, late_adds>>

histVars == <<started_at, fired, double_fired, evaluated, last_eval, last_add,
              due, dispatched, err_at, log_err>>

alignerVars == <<at_t, at_T, at_res, at_closed>>

logVars == <<lt_pc, lt_trades, lt_data>>

gateVars == <<g_variant, g_file, g_file0, g_seen, g_answers>>

raceVars == <<w_pc, w_existing, w_signal>>

ctorVars == <<c_pc, c_file>>

strategyVars == <<p_init, p_rates, p_pattern, s_result>>

\* the state of the parts that are examined on their own, outside a scheduler run
sideVars == <<alignerVars, logVars, gateVars, raceVars, ctorVars, strategyVars>>

vars == <<progVars, histVars, sideVars>>

(* ------------------------------------------------------------------ *)
(* self.strategies                                                      *)
(* ------------------------------------------------------------------ *)

HasKey(strats, name) == \E i \in 1..Len(strats) : strats[i].name = name

IndexOfKey(strats, name) == CHOOSE i \in 1..Len(strats) : strats[i].name = name

\* the dict value add_strategy builds: no 'next_execution' key (<<>>), last_run None (<<>>)
NewEntry(name, function, symbols, timeframe) ==
    [name |-> name, function |-> function, symbols |-> symbols,
     timeframe |-> timeframe, last_run |-> <<>>, next_execution |-> <<>>]

\* self.strategies[name] = {...}: a present key keeps its place and gets the new value
add_strategy(strats, name, function, symbols, timeframe) ==
    IF HasKey(strats, name)
    THEN [strats EXCEPT ![IndexOfKey(strats, name)] =
              NewEntry(name, function, symbols, timeframe)]
    ELSE Append(strats, NewEntry(name, function, symbols, timeframe))

\* the first for loop of start_scheduler
InitialSchedule(strats, t) ==
    [i \in 1..Len(strats) |->
        [strats[i] EXCEPT !.next_execution =
            <<get_next_candle_time(t, strats[i].timeframe)>>]]

\* the loop's condition: info['next_execution'] and current_time >= info['next_execution']
IsDue(entry, t) == entry.next_execution # <<>> /\ t >= entry.next_execution[1]

(* ------------------------------------------------------------------ *)
(* run_strategy_threaded's handling of one result, and log_trade        *)
(* ------------------------------------------------------------------ *)

\* result.get(...) on None raises AttributeError
Raises(result) == result.signal = "None"

\* log_trade called for every result dict, whatever its signal
ShouldLogTradeAlways(result) == TRUE

\* if result["signal"] in ["BUY", "SELL"]: self.log_trade(trade_data)
ShouldLogTrade(result) == result.signal \in {"BUY", "SELL"}

\* no try/except around one symbol's evaluation: the exception ends the symbol loop
OnSymbolExceptionAbort == "abort"

\* what the except clause around one symbol's evaluation does with an exception:
\* "continue" with the next symbol
OnSymbolException == "continue"

\* log_trade without its try/except: a failed read or write leaves log_trade as an
\* exception
OnLogTradeExceptionRaise == "raise"

\* what log_trade's "except Exception" does with a failed read or write: "report" it
\* with logging.error and return normally
OnLogTradeException == "report"

\* trade_data as built by run_strategy_threaded, with logged_at added by log_trade
TradeData(name, symbol, timeframe, result, t) ==
    [strategy_name |-> name, symbol |-> symbol, timeframe_minutes |-> timeframe,
     candle_close_time |-> t, signal |-> result.signal,
     timestamp |-> result.timestamp, logged_at |-> t]

\* log_trade: read the array, append, write it back; io is what the file system does
log_trade(log, trade_data, io) ==
    IF ~log.valid \/ io = "read_fail" THEN log
    ELSE IF io = "write_fail" THEN [valid |-> FALSE, records |-> <<>>]
    ELSE [valid |-> TRUE, records |-> Append(log.records, trade_data)]

\* history only: record r carries the strategy, symbol, timestamp and signal of a result
SameKey(r, name, symbol, result) ==
    /\ r.strategy_name = name
    /\ r.symbol = symbol
    /\ r.timestamp = result.timestamp
    /\ r.signal = result.signal

(* ------------------------------------------------------------------ *)
(* The scheduler                                                        *)
(* ------------------------------------------------------------------ *)

NoInfo == [name |-> "", timeframe |-> 0, live |-> TRUE]

NoRun == [name |-> "", function |-> "", symbols |-> <<>>, timeframe |-> 0]

\* MultiTimeframeScheduler.__init__ on a fresh logs directory; nothing is registered yet
SchedulerInit ==
    /\ now \in {StartTime + s : s \in StartSeconds}
    /\ running = TRUE
    /\ strategies = <<>>
    /\ trade_log = [valid |-> TRUE, records |-> <<>>]
    /\ pc = "setup"
    /\ current_time = 0
    /\ iter_size = 0
    /\ idx = 0
    /\ info = NoInfo
    /\ run = NoRun
    /\ sym = 0
    /\ exit_cause = "none"
    /\ io_failures = 0
    /\ late_adds = 0
    /\ started_at = <<>>
    /\ fired = {}
    /\ double_fired = {}
    /\ evaluated = <<>>
    /\ last_eval = <<>>
    /\ last_add = <<>>
    /\ due = {}
    /\ dispatched = {}
    /\ err_at = <<>>
    /\ log_err = <<>>

\* no get_next_candle_time call is examined on its own
AlignerIdle ==
    /\ at_t = 0
    /\ at_T = 1
    /\ at_res = <<>>
    /\ at_closed = <<>>

\* the threads calling log_trade concurrently
LogThreads == {1, 2}

\* no thread other than the scheduler's calls log_trade
LogIdle ==
    /\ lt_pc = [th \in LogThreads |-> "idle"]
    /\ lt_trades = [th \in LogThreads |-> <<>>]
    /\ lt_data = [th \in LogThreads |-> <<>>]

\* the dedup gate of the strategy modules is not called by the scheduler
GateIdle ==
    /\ g_variant = "strategy1"
    /\ g_file = [valid |-> TRUE, records |-> <<>>]
    /\ g_file0 = [valid |-> TRUE, records |-> <<>>]
    /\ g_seen = <<>>
    /\ g_answers = <<>>

\* the workers running the dedup gate concurrently
GateWorkers == {1, 2}

\* no worker runs the dedup gate
RaceIdle ==
    /\ w_pc = [w \in GateWorkers |-> "idle"]
    /\ w_existing = [w \in GateWorkers |-> <<>>]
    /\ w_signal = <<>>

\* no construction on an existing logs directory is examined
CtorIdle ==
    /\ c_pc = "idle"
    /\ c_file = <<>>

\* no strategy call is examined on its own
StrategyIdle ==
    /\ p_init = TRUE
    /\ p_rates = <<>>
    /\ p_pattern = "flat"
    /\ s_result = <<>>

Init ==
    /\ SchedulerInit
    /\ AlignerIdle
    /\ LogIdle
    /\ GateIdle
    /\ RaceIdle
    /\ CtorIdle
    /\ StrategyIdle

\* add_strategy(name, strategy_func, symbols, timeframe_minutes), from main() before
\* start_scheduler or from another thread while the loop runs
AddStrategy(name, function, symbols, timeframe) ==
    /\ pc # "done"
    /\ pc # "setup" => late_adds < MaxLateAdds
    /\ late_adds' = IF pc = "setup" THEN late_adds ELSE late_adds + 1
    /\ strategies' = add_strategy(strategies, name, function, symbols, timeframe)
    /\ info' = IF pc \in {"exec", "finish"} /\ info.name = name
               THEN [info EXCEPT !.live = FALSE] ELSE info
    /\ last_add' = <<[name |-> name, at |-> now, existed |-> HasKey(strategies, name),
                      before |-> IF HasKey(strategies, name)
                                 THEN strategies[IndexOfKey(strategies, name)]
                                 ELSE NewEntry(name, function, symbols, timeframe)]>>
    /\ last_eval' = <<>>
    /\ UNCHANGED <<now, running, trade_log, pc, current_time, iter_size, idx, run, sym,
                   exit_cause, io_failures, started_at, fired, double_fired,
                   evaluated, due, dispatched, err_at, log_err>>

\* start_scheduler up to "=== MAIN LOOP STARTED ==="
StartScheduler ==
    /\ pc = "setup"
    /\ strategies' = InitialSchedule(strategies, now)
    /\ started_at' = <<now>>
    /\ pc' = "loop_top"
    /\ last_add' = <<>>
    /\ UNCHANGED <<now, running, trade_log, current_time, iter_size, idx, info, run, sym,
                   exit_cause, io_failures, late_adds, fired, double_fired, evaluated,
                   last_eval, due, dispatched, err_at, log_err>>

\* "while True:": the head of a loop that does not look at self.running
LoopTopIgnoringStop ==
    /\ pc = "loop_top"
    /\ pc' = "scan"
    /\ current_time' = now
    /\ iter_size' = Len(strategies)
    /\ idx' = 1
    /\ due' = {strategies[i].name : i \in {j \in 1..Len(strategies) :
                                             IsDue(strategies[j], now)}}
    /\ dispatched' = {}
    /\ err_at' = <<>>
    /\ log_err' = <<>>
    /\ last_add' = <<>>
    /\ last_eval' = <<>>
    /\ UNCHANGED <<now, running, strategies, trade_log, info, run, sym, io_failures,
                   late_adds, started_at, fired, double_fired, evaluated, exit_cause>>

\* while self.running: current_time = datetime.now(); the for loop's iterator is made
LoopTop ==
    /\ pc = "loop_top"
    /\ IF running
       THEN /\ pc' = "scan"
            /\ current_time' = now
            /\ iter_size' = Len(strategies)
            /\ idx' = 1
            /\ due' = {strategies[i].name : i \in {j \in 1..Len(strategies) :
                                                     IsDue(strategies[j], now)}}
            /\ UNCHANGED exit_cause
       ELSE /\ pc' = "done"
            /\ exit_cause' = "stopped"
            /\ UNCHANGED <<current_time, iter_size, idx, due>>
    /\ dispatched' = {}
    /\ err_at' = <<>>
    /\ log_err' = <<>>
    /\ last_add' = <<>>
    /\ last_eval' = <<>>
    /\ UNCHANGED <<now, running, strategies, trade_log, info, run, sym, io_failures, late_adds,
                   started_at, fired, double_fired, evaluated>>

\* the loop leaves through "except Exception" and the finally clause
LoopCrash(cause) ==
    /\ pc' = "done"
    /\ exit_cause' = cause
    /\ UNCHANGED <<now, strategies, idx, info, run, sym, fired, double_fired,
                   evaluated, dispatched>>

\* one step of "for name, info in self.strategies.items()": the not-due case, the
\* skipped dispatch (candle not closed) and the start of an executed dispatch
Scan ==
    /\ pc = "scan"
    /\ last_add' = <<>>
    /\ last_eval' = <<>>
    /\ UNCHANGED <<running, trade_log, current_time, iter_size, io_failures, late_adds,
                   started_at, due, err_at, log_err>>
    /\ IF Len(strategies) # iter_size
       THEN LoopCrash("RuntimeError")
       ELSE IF idx > Len(strategies)
       THEN /\ pc' = "sleep"
            /\ UNCHANGED <<now, strategies, idx, info, run, sym, exit_cause, fired,
                           double_fired, evaluated, dispatched>>
       ELSE IF strategies[idx].next_execution = <<>>
       THEN LoopCrash("KeyError")
       ELSE IF ~IsDue(strategies[idx], current_time)
       THEN /\ idx' = idx + 1
            /\ UNCHANGED <<now, strategies, pc, info, run, sym, exit_cause, fired,
                           double_fired, evaluated, dispatched>>
       ELSE \E latency \in Latencies :
            LET e == strategies[idx]
                t == now + latency
            IN  /\ t <= Deadline(running)
                /\ now' = t
                /\ dispatched' = dispatched \cup {e.name}
                /\ UNCHANGED exit_cause
                /\ IF ~is_candle_closed(t, e.timeframe)
                   THEN /\ strategies' = [strategies EXCEPT ![idx].next_execution =
                                             <<get_next_candle_time(t, e.timeframe)>>]
                        /\ idx' = idx + 1
                        /\ UNCHANGED <<pc, info, run, sym, fired, double_fired,
                                       evaluated>>
                   ELSE /\ pc' = "exec"
                        /\ info' = [name |-> e.name, timeframe |-> e.timeframe,
                                    live |-> TRUE]
                        /\ run' = [name |-> e.name, function |-> e.function,
                                   symbols |-> e.symbols, timeframe |-> e.timeframe]
                        /\ sym' = 1
                        /\ evaluated' = <<>>
                        /\ fired' = fired \cup {<<e.name, AbsMinute(t)>>}
                        /\ double_fired' =
                              IF <<e.name, AbsMinute(t)>> \in fired
                              THEN double_fired \cup {<<e.name, AbsMinute(t)>>}
                              ELSE double_fired
                        /\ UNCHANGED <<strategies, idx>>

\* what the file system can do to one log_trade call
IoOutcomes == {"ok", "read_fail", "write_fail"}

\* one iteration of "for symbol in symbols": the call of strategy_func, which takes
\* time, then the logging of its result
ExecSymbol ==
    /\ pc = "exec"
    /\ \E d \in Durations, kind \in KindsOf(run.function), io \in IoOutcomes :
         LET t == now + d
             symbol == run.symbols[sym]
             result == StrategyResult(run.function, kind, t,
                                      get_mt5_timeframe(run.timeframe))
             logs == ~Raises(result) /\ ShouldLogTrade(result)
             log_failed == logs /\ ~(trade_log.valid /\ io = "ok")
             raised == Raises(result)
                          \/ (log_failed /\ OnLogTradeException = "raise")
             next_sym == IF raised /\ OnSymbolException = "abort"
                         THEN Len(run.symbols) + 1 ELSE sym + 1
         IN  /\ t <= Deadline(running)
             /\ logs => Len(trade_log.records) < MaxLog
             /\ io # "ok" => (logs /\ trade_log.valid /\ io_failures < MaxIoFailures)
             /\ now' = t
             /\ evaluated' = Append(evaluated, symbol)
             /\ trade_log' = IF logs
                             THEN log_trade(trade_log,
                                            TradeData(run.name, symbol, run.timeframe,
                                                      result, t), io)
                             ELSE trade_log
             /\ io_failures' = IF io = "ok" THEN io_failures ELSE io_failures + 1
             /\ last_eval' = <<[name |-> run.name, symbol |-> symbol,
                                timeframe |-> run.timeframe,
                                mt5_timeframe |-> get_mt5_timeframe(run.timeframe),
                                signal |-> result.signal,
                                timestamp |-> result.timestamp,
                                novel |-> ~\E i \in 1..Len(trade_log.records) :
                                             SameKey(trade_log.records[i], run.name,
                                                     symbol, result),
                                io_ok |-> trade_log.valid /\ io = "ok",
                                log_failed |-> log_failed,
                                raised |-> raised]>>
             /\ err_at' = IF raised /\ err_at = <<>>
                          THEN <<run.name, sym>> ELSE err_at
             /\ log_err' = IF log_failed THEN <<run.name, sym, t>> ELSE log_err
             /\ IF raised /\ OnSymbolException = "crash"
                THEN /\ pc' = "done"
                     /\ exit_cause' = "Exception"
                     /\ UNCHANGED sym
                ELSE /\ sym' = next_sym
                     /\ pc' = IF next_sym > Len(run.symbols) THEN "finish" ELSE "exec"
                     /\ UNCHANGED exit_cause
    /\ last_add' = <<>>
    /\ UNCHANGED <<running, strategies, current_time, iter_size, idx, info, run, late_adds,
                   started_at, fired, double_fired, due, dispatched>>

\* the end of run_strategy_threaded without "self.strategies[...]['last_run'] = ...",
\* and the new next_execution
FinishRunWithoutLastRun ==
    /\ pc = "finish"
    /\ strategies' =
          LET k == IndexOfKey(strategies, run.name)
          IN  IF info.live
              THEN [strategies EXCEPT ![k].next_execution =
                        <<get_next_candle_time(now, info.timeframe)>>]
              ELSE strategies
    /\ idx' = idx + 1
    /\ pc' = "scan"
    /\ info' = NoInfo
    /\ run' = NoRun
    /\ sym' = 0
    /\ evaluated' = <<>>
    /\ last_add' = <<>>
    /\ last_eval' = <<>>
    /\ UNCHANGED <<now, running, trade_log, current_time, iter_size, exit_cause,
                   io_failures, late_adds, started_at, fired, double_fired, due, dispatched,
                   err_at, log_err>>

\* the end of run_strategy_threaded (last_run) and, back in the loop, the new next_execution
FinishRun ==
    /\ pc = "finish"
    /\ strategies' =
          LET k == IndexOfKey(strategies, run.name)
              with_last == [strategies EXCEPT ![k].last_run = <<now>>]
          IN  IF info.live
              THEN [with_last EXCEPT ![k].next_execution =
                        <<get_next_candle_time(now, info.timeframe)>>]
              ELSE with_last
    /\ idx' = idx + 1
    /\ pc' = "scan"
    /\ info' = NoInfo
    /\ run' = NoRun
    /\ sym' = 0
    /\ evaluated' = <<>>
    /\ last_add' = <<>>
    /\ last_eval' = <<>>
    /\ UNCHANGED <<now, running, trade_log, current_time, iter_size, exit_cause,
                   io_failures, late_adds, started_at, fired, double_fired, due, dispatched,
                   err_at, log_err>>

\* time.sleep(1)
Sleep ==
    /\ pc = "sleep"
    /\ now + SleepSeconds <= Deadline(running)
    /\ now' = now + SleepSeconds
    /\ pc' = "loop_top"
    /\ last_add' = <<>>
    /\ last_eval' = <<>>
    /\ UNCHANGED <<running, strategies, trade_log, current_time, iter_size, idx, info,
                   run, sym, exit_cause, io_failures, late_adds, started_at, fired,
                   double_fired, evaluated, due, dispatched, err_at, log_err>>

\* stop_scheduler, called from another thread
Stop ==
    /\ pc \notin {"setup", "done"}
    /\ running
    /\ running' = FALSE
    /\ last_add' = <<>>
    /\ last_eval' = <<>>
    /\ UNCHANGED <<now, strategies, trade_log, pc, current_time, iter_size, idx, info,
                   run, sym, exit_cause, io_failures, late_adds, started_at, fired,
                   double_fired, evaluated, due, dispatched, err_at, log_err>>

\* main(): every add_strategy call precedes start_scheduler
Register ==
    /\ pc = "setup"
    /\ \E name \in Names, r \in Registrations :
          AddStrategy(name, r.function, r.symbols, r.timeframe)

\* add_strategy called by another thread once start_scheduler has begun
LateRegister ==
    /\ pc # "setup"
    /\ \E name \in Names, r \in Registrations :
          AddStrategy(name, r.function, r.symbols, r.timeframe)

Next ==
    \/ Register /\ UNCHANGED sideVars
    \/ StartScheduler /\ UNCHANGED sideVars
    \/ LoopTop /\ UNCHANGED sideVars
    \/ Scan /\ UNCHANGED sideVars
    \/ ExecSymbol /\ UNCHANGED sideVars
    \/ FinishRun /\ UNCHANGED sideVars
    \/ Sleep /\ UNCHANGED sideVars
    \/ Stop /\ UNCHANGED sideVars

Spec == Init /\ [][Next]_vars

\* the scheduler with add_strategy calls arriving while the loop runs
NextLate ==
    \/ Next
    \/ LateRegister /\ UNCHANGED sideVars

SpecLate == Init /\ [][NextLate]_vars

\* the same when no strategy result is written to the trade log
NextLateQuiet == NextLate /\ trade_log' = trade_log

SpecLateQuiet == Init /\ [][NextLateQuiet]_vars

(* ------------------------------------------------------------------ *)
(* The scheduler under a user interrupt                                 *)
(* ------------------------------------------------------------------ *)

\* KeyboardInterrupt raised in the thread inside start_scheduler: no "except Exception"
\* catches it, "except KeyboardInterrupt" of start_scheduler does, and the finally
\* clause logs "Scheduler shutdown complete"; what the thread was doing is abandoned
Interrupt ==
    /\ pc \in {"loop_top", "scan", "exec", "finish", "sleep"}
    /\ pc' = "done"
    /\ exit_cause' = "KeyboardInterrupt"
    /\ last_add' = <<>>
    /\ last_eval' = <<>>
    /\ UNCHANGED <<now, running, strategies, trade_log, current_time, iter_size, idx,
                   info, run, sym, io_failures, late_adds, started_at, fired,
                   double_fired, evaluated, due, dispatched, err_at, log_err>>

\* KeyboardInterrupt raised while log_trade, called for a BUY or SELL result, has
\* opened the file with 'w' and json.dump has not completed: the file stays cut off
InterruptedWrite ==
    /\ pc = "exec"
    /\ trade_log.valid
    /\ \E kind \in KindsOf(run.function) :
          LET result == StrategyResult(run.function, kind, now,
                                       get_mt5_timeframe(run.timeframe))
          IN  ~Raises(result) /\ ShouldLogTrade(result)
    /\ trade_log' = [valid |-> FALSE, records |-> <<>>]
    /\ pc' = "done"
    /\ exit_cause' = "KeyboardInterrupt"
    /\ last_add' = <<>>
    /\ last_eval' = <<>>
    /\ UNCHANGED <<now, running, strategies, current_time, iter_size, idx, info, run,
                   sym, io_failures, late_adds, started_at, fired, double_fired,
                   evaluated, due, dispatched, err_at, log_err>>

NextInterrupt ==
    \/ Next
    \/ Interrupt /\ UNCHANGED sideVars
    \/ InterruptedWrite /\ UNCHANGED sideVars

SpecInterrupt == Init /\ [][NextInterrupt]_vars

(* ------------------------------------------------------------------ *)
(* The scheduler's thread keeps running                                 *)
(* ------------------------------------------------------------------ *)

\* a step of the thread inside start_scheduler
LoopStep ==
    \/ LoopTop /\ UNCHANGED sideVars
    \/ Scan /\ UNCHANGED sideVars
    \/ ExecSymbol /\ UNCHANGED sideVars
    \/ FinishRun /\ UNCHANGED sideVars
    \/ Sleep /\ UNCHANGED sideVars

\* the scheduler when no strategy result is written to the trade log
NextQuiet == Next /\ trade_log' = trade_log

\* every strategy call returns, time.sleep(1) returns, and the thread is scheduled
SpecLive == Init /\ [][NextQuiet]_vars /\ WF_vars(LoopStep /\ trade_log' = trade_log)

(* ------------------------------------------------------------------ *)
(* One entry whose strategy calls return at once                        *)
(* ------------------------------------------------------------------ *)

\* the scheduler with at most one registered entry and strategy calls during which
\* the clock does not advance
NextSolo ==
    /\ Next
    /\ Len(strategies') <= 1
    /\ pc = "exec" => now' = now

SpecSolo == Init /\ [][NextSolo]_vars

(* ------------------------------------------------------------------ *)
(* The candle aligner on its own: get_next_candle_time at any instant   *)
(* ------------------------------------------------------------------ *)

\* timeframes the aligner is evaluated for; 7 does not divide the minutes of a day
AlignerTimeframes == {1, 5, 7, 15, 60, 1440}

\* instants of one day the aligner is evaluated at
AlignerInstants ==
    {m * SecondsPerMinute + s : m \in 0..(MinutesPerDay - 1), s \in {0, 30, 59}}

InitAligner ==
    /\ SchedulerInit
    /\ now = StartTime
    /\ LogIdle
    /\ GateIdle
    /\ RaceIdle
    /\ CtorIdle
    /\ StrategyIdle
    /\ at_t \in AlignerInstants
    /\ at_T \in AlignerTimeframes
    /\ at_res = <<>>
    /\ at_closed = <<>>

\* one call of get_next_candle_time(at_T) with datetime.now() = at_t
CallGetNextCandleTime ==
    /\ at_res = <<>>
    /\ at_res' = <<get_next_candle_time(at_t, at_T)>>
    /\ UNCHANGED <<at_t, at_T, at_closed, progVars, histVars, logVars, gateVars,
                   raceVars, ctorVars, strategyVars>>

\* one call of is_candle_closed(at_T) with datetime.now() = at_t
CallIsCandleClosed ==
    /\ at_closed = <<>>
    /\ at_closed' = <<is_candle_closed(at_t, at_T)>>
    /\ UNCHANGED <<at_t, at_T, at_res, progVars, histVars, logVars, gateVars,
                   raceVars, ctorVars, strategyVars>>

NextAligner ==
    \/ CallGetNextCandleTime
    \/ CallIsCandleClosed

SpecAligner == InitAligner /\ [][NextAligner]_vars

(* ------------------------------------------------------------------ *)
(* log_trade called by two threads at once                              *)
(* ------------------------------------------------------------------ *)

\* the trade_data dicts the two calls are made with
LogInputs ==
    {TradeData("A", symbol, 1,
               StrategyResult("supertrend_rsi_strategy", kind, StartTime, 1), StartTime) :
        symbol \in {"XAUUSD", "EURUSD"}, kind \in {"BUY", "SELL"}}

InitLog ==
    /\ SchedulerInit
    /\ now = StartTime
    /\ AlignerIdle
    /\ GateIdle
    /\ RaceIdle
    /\ CtorIdle
    /\ StrategyIdle
    /\ lt_pc = [th \in LogThreads |-> "called"]
    /\ lt_trades = [th \in LogThreads |-> <<>>]
    /\ lt_data \in {f \in [LogThreads -> LogInputs] : f[1] # f[2]}

\* with open(..., 'r'): trades = json.load(f), then trades.append(trade_data); a file
\* that another call has opened for writing and not yet written does not parse, and
\* the except clause ends the call
LogTradeRead(th) ==
    /\ lt_pc[th] = "called"
    /\ IF trade_log.valid
       THEN /\ lt_trades' = [lt_trades EXCEPT ![th] =
                                 Append(trade_log.records, lt_data[th])]
            /\ lt_pc' = [lt_pc EXCEPT ![th] = "appended"]
       ELSE /\ lt_pc' = [lt_pc EXCEPT ![th] = "failed"]
            /\ UNCHANGED lt_trades
    /\ UNCHANGED <<trade_log, lt_data>>

\* with open(..., 'w'): the file is truncated
LogTradeOpen(th) ==
    /\ lt_pc[th] = "appended"
    /\ trade_log' = [valid |-> FALSE, records |-> <<>>]
    /\ lt_pc' = [lt_pc EXCEPT ![th] = "opened"]
    /\ UNCHANGED <<lt_trades, lt_data>>

\* json.dump(trades, f, indent=2) and the closing of the file
LogTradeDump(th) ==
    /\ lt_pc[th] = "opened"
    /\ trade_log' = [valid |-> TRUE, records |-> lt_trades[th]]
    /\ lt_pc' = [lt_pc EXCEPT ![th] = "returned"]
    /\ UNCHANGED <<lt_trades, lt_data>>

LogUnchanged ==
    UNCHANGED <<now, running, strategies, pc, current_time, iter_size, idx, info, run,
                sym, exit_cause, io_failures, late_adds, histVars, alignerVars,
                gateVars, raceVars, ctorVars, strategyVars>>

NextLog ==
    \/ \E th \in LogThreads : LogTradeRead(th) /\ LogUnchanged
    \/ \E th \in LogThreads : LogTradeOpen(th) /\ LogUnchanged
    \/ \E th \in LogThreads : LogTradeDump(th) /\ LogUnchanged

SpecLog == InitLog /\ [][NextLog]_vars

(* ------------------------------------------------------------------ *)
(* The dedup gate of the strategy modules                               *)
(* ------------------------------------------------------------------ *)

\* calls of the gate made in a row on one log file
MaxReplays == 2

\* the "signal" values of the dicts put through the gate
GateKinds == {"BUY", "SELL", "CLOSE", "HOLD", "NO_SIGNAL", "NO_DATA", "ERROR"}

\* the "timestamp" values of the dicts put through the gate
GateTimestamps == {<<"time", 544>>, <<"time", 545>>}

\* the fields of a signal dict other than "signal" and "timestamp"; "strategy" is
\* the only field of the dict that names where the signal comes from
GateDetails ==
    { [strategy |-> "MA_Crossover", reason |-> "r1", entry_price |-> 1],
      [strategy |-> "MA_Crossover", reason |-> "r2", entry_price |-> 1],
      [strategy |-> "MA_Crossover", reason |-> "r1", entry_price |-> 2],
      [strategy |-> "Supertrend+RSI", reason |-> "r1", entry_price |-> 1] }

GateSignals ==
    { [signal |-> k, timestamp |-> ts, strategy |-> d.strategy, reason |-> d.reason,
       entry_price |-> d.entry_price] :
        k \in GateKinds, ts \in GateTimestamps, d \in GateDetails }

\* new_signal: a dict <<s>> or None <<>>
GateInputs == {<<s>> : s \in GateSignals} \cup {<<>>}

\* the log file before the first call: not parseable, missing or empty, or holding
\* one earlier signal
GateFiles ==
    {[valid |-> FALSE, records |-> <<>>], [valid |-> TRUE, records |-> <<>>]}
      \cup {[valid |-> TRUE, records |-> <<s>>] :
                s \in {x \in GateSignals :
                          /\ x.signal \in {"BUY", "CLOSE"}
                          /\ x.strategy = "MA_Crossover"
                          /\ x.reason = "r1" /\ x.entry_price = 1}}

\* load_existing_signals that finds nothing, whatever the file holds
LoadNothing(file) == <<>>

\* load_existing_signals: [] for a missing file and on JSONDecodeError
load_existing_signals(file) == IF file.valid THEN file.records ELSE <<>>

\* save_new_signal: load, append, write back
save_new_signal(file, new_signal) ==
    [valid |-> TRUE, records |-> Append(load_existing_signals(file), new_signal)]

\* the signals check_if_signal_already_logged answers True for without reading the
\* file: ["NO_DATA", "ERROR", "HOLD"] in strategy1, ["NO_DATA", "ERROR"] in strategy4
GateExcluded(variant) ==
    IF variant = "strategy1" THEN {"NO_DATA", "ERROR", "HOLD"} ELSE {"NO_DATA", "ERROR"}

\* a comparison of the whole dicts
SignalEquals(existing, new_signal) == existing = new_signal

\* existing.get("timestamp") == new_signal.get("timestamp") and
\* existing.get("signal") == new_signal.get("signal")
SignalMatches(existing, new_signal) ==
    /\ existing.timestamp = new_signal.timestamp
    /\ existing.signal = new_signal.signal

\* check_if_signal_already_logged(log_file, new_signal) of module variant
check_if_signal_already_logged(variant, file, new_signal) ==
    IF new_signal = <<>> \/ new_signal[1].signal \in GateExcluded(variant)
    THEN TRUE
    ELSE \E i \in 1..Len(load_existing_signals(file)) :
            SignalMatches(load_existing_signals(file)[i], new_signal[1])

InitGate ==
    /\ SchedulerInit
    /\ now = StartTime
    /\ AlignerIdle
    /\ LogIdle
    /\ RaceIdle
    /\ CtorIdle
    /\ StrategyIdle
    /\ g_variant \in {"strategy1", "strategy4"}
    /\ g_file0 \in GateFiles
    /\ g_file = g_file0
    /\ g_seen = <<>>
    /\ g_answers = <<>>

\* if result and not check_if_signal_already_logged(log_file, result):
\*     save_new_signal(log_file, result)
GateThenPersist ==
    /\ Len(g_seen) < MaxReplays
    /\ \E new_signal \in GateInputs :
          LET logged == check_if_signal_already_logged(g_variant, g_file, new_signal)
          IN  /\ g_answers' = Append(g_answers, logged)
              /\ g_seen' = Append(g_seen, new_signal)
              /\ g_file' = IF new_signal # <<>> /\ ~logged
                           THEN save_new_signal(g_file, new_signal[1])
                           ELSE g_file
    /\ UNCHANGED <<g_variant, g_file0, progVars, histVars, alignerVars, logVars,
                   raceVars, ctorVars, strategyVars>>

NextGate == GateThenPersist

SpecGate == InitGate /\ [][NextGate]_vars

(* ------------------------------------------------------------------ *)
(* The dedup gate run by two workers at once on one log file            *)
(* ------------------------------------------------------------------ *)

\* the signal both workers hold
RaceSignals ==
    {x \in GateSignals : /\ x.signal \in Actionable
                         /\ x.strategy = "MA_Crossover"
                         /\ x.reason = "r1" /\ x.entry_price = 1}

InitRace ==
    /\ SchedulerInit
    /\ now = StartTime
    /\ AlignerIdle
    /\ LogIdle
    /\ CtorIdle
    /\ StrategyIdle
    /\ g_variant \in {"strategy1", "strategy4"}
    /\ g_file0 \in GateFiles
    /\ g_file = g_file0
    /\ g_seen = <<>>
    /\ g_answers = <<>>
    /\ w_pc = [w \in GateWorkers |-> "start"]
    /\ w_existing = [w \in GateWorkers |-> <<>>]
    /\ w_signal \in {<<x>> : x \in RaceSignals}

\* if result and not check_if_signal_already_logged(log_file, result):
WorkerCheck(w) ==
    /\ w_pc[w] = "start"
    /\ w_pc' = [w_pc EXCEPT ![w] =
                   IF check_if_signal_already_logged(g_variant, g_file, w_signal)
                   THEN "skipped" ELSE "novel"]
    /\ UNCHANGED <<g_file, w_existing>>

\* save_new_signal: existing_signals = load_existing_signals(log_file), then
\* existing_signals.append(new_signal)
WorkerLoad(w) ==
    /\ w_pc[w] = "novel"
    /\ w_existing' = [w_existing EXCEPT ![w] =
                         Append(load_existing_signals(g_file), w_signal[1])]
    /\ w_pc' = [w_pc EXCEPT ![w] = "loaded"]
    /\ UNCHANGED g_file

\* save_new_signal: with open(log_file, "w") truncates the file
WorkerOpen(w) ==
    /\ w_pc[w] = "loaded"
    /\ g_file' = [valid |-> FALSE, records |-> <<>>]
    /\ w_pc' = [w_pc EXCEPT ![w] = "opened"]
    /\ UNCHANGED w_existing

\* save_new_signal: json.dump(existing_signals, f, indent=4) and the closing of the file
WorkerDump(w) ==
    /\ w_pc[w] = "opened"
    /\ g_file' = [valid |-> TRUE, records |-> w_existing[w]]
    /\ w_pc' = [w_pc EXCEPT ![w] = "saved"]
    /\ UNCHANGED w_existing

RaceUnchanged ==
    UNCHANGED <<g_variant, g_file0, g_seen, g_answers, w_signal, progVars, histVars,
                alignerVars, logVars, ctorVars, strategyVars>>

NextRace ==
    \/ \E w \in GateWorkers : WorkerCheck(w) /\ RaceUnchanged
    \/ \E w \in GateWorkers : WorkerLoad(w) /\ RaceUnchanged
    \/ \E w \in GateWorkers : WorkerOpen(w) /\ RaceUnchanged
    \/ \E w \in GateWorkers : WorkerDump(w) /\ RaceUnchanged

SpecRace == InitRace /\ [][NextRace]_vars

(* ------------------------------------------------------------------ *)
(* Construction of the scheduler on a logs directory that may hold a    *)
(* trade log of an earlier run                                          *)
(* ------------------------------------------------------------------ *)

\* records an existing trade_log.json holds at most
MaxFileRecords == 3

\* trade_log.json as __init__ may find it: absent (<<>>), cut off by an earlier
\* interrupted write, or an array of records of earlier runs
CtorFiles ==
    {<<>>, <<[valid |-> FALSE, records |-> <<>>]>>}
      \cup {<<[valid |-> TRUE, records |-> r]>> :
                r \in UNION {[1..n -> LogInputs] : n \in 0..MaxFileRecords}}

\* an __init__ that writes [] to trade_log.json whether or not the file exists
InitTradeLogAlways(file) == [valid |-> TRUE, records |-> <<>>]

\* if not os.path.exists(self.trade_log_file): json.dump([], f); the content of the
\* file afterwards
init_trade_log(file) ==
    IF file = <<>> THEN [valid |-> TRUE, records |-> <<>>] ELSE file[1]

InitCtor ==
    /\ SchedulerInit
    /\ now = StartTime
    /\ AlignerIdle
    /\ LogIdle
    /\ GateIdle
    /\ RaceIdle
    /\ StrategyIdle
    /\ c_pc = "before"
    /\ c_file \in CtorFiles

\* MultiTimeframeScheduler(logs_dir); trade_log is the file's content afterwards
Construct ==
    /\ c_pc = "before"
    /\ c_pc' = "constructed"
    /\ running' = TRUE
    /\ strategies' = <<>>
    /\ trade_log' = init_trade_log(c_file)
    /\ UNCHANGED <<c_file, now, pc, current_time, iter_size, idx, info, run, sym,
                   exit_cause, io_failures, late_adds, histVars, alignerVars, logVars,
                   gateVars, raceVars, strategyVars>>

NextCtor == Construct

SpecCtor == InitCtor /\ [][NextCtor]_vars

(* ------------------------------------------------------------------ *)
(* moving_average_crossover_strategy and the data it fetches            *)
(* ------------------------------------------------------------------ *)

\* what mt5.copy_rates_from_pos returns for count = slow_period + 10: None (<<>>) or
\* an array of n rows (<<n>>)
ProviderReplies == {<<>>} \cup {<<n>> : n \in 0..(slow_period + 10)}

\* the last two rows' moving averages: a bullish crossover, a bearish one, neither
CrossoverPatterns == {"bull", "bear", "flat"}

\* get_data: the exception it raises ("none" when it returns) and the number of rows
\* of the DataFrame it returns
get_data(init, rates) ==
    IF ~init THEN [raised |-> "RuntimeError", rows |-> 0]
    ELSE IF rates = <<>> \/ rates[1] = 0 THEN [raised |-> "ValueError", rows |-> 0]
    ELSE [raised |-> "none", rows |-> rates[1]]

\* moving_average_crossover_strategy(symbol, timeframe) with the default periods
moving_average_crossover_strategy(init, rates, pattern) ==
    LET df == get_data(init, rates)
    IN  IF df.raised # "none"
        THEN [signal |-> "ERROR", timestamp |-> <<>>]
        ELSE IF df.rows < slow_period
        THEN [signal |-> "NO_DATA", timestamp |-> <<>>]
        ELSE IF df.rows < slow_period + 1
        THEN [signal |-> "NO_SIGNAL", timestamp |-> <<>>]
        ELSE [signal |-> CASE pattern = "bull" -> "BUY"
                           [] pattern = "bear" -> "SELL"
                           [] OTHER -> "HOLD",
              timestamp |-> <<"index", df.rows - 1>>]

InitStrategy ==
    /\ SchedulerInit
    /\ now = StartTime
    /\ AlignerIdle
    /\ LogIdle
    /\ GateIdle
    /\ RaceIdle
    /\ CtorIdle
    /\ p_init \in BOOLEAN
    /\ p_rates \in ProviderReplies
    /\ p_pattern \in CrossoverPatterns
    /\ s_result = <<>>

\* one call of moving_average_crossover_strategy
CallStrategy ==
    /\ s_result = <<>>
    /\ s_result' = <<moving_average_crossover_strategy(p_init, p_rates, p_pattern)>>
    /\ UNCHANGED <<p_init, p_rates, p_pattern, progVars, histVars, alignerVars,
                   logVars, gateVars, raceVars, ctorVars>>

NextStrategy == CallStrategy

SpecStrategy == InitStrategy /\ [][NextStrategy]_vars

(* ------------------------------------------------------------------ *)
(* Properties                                                           *)
(* ------------------------------------------------------------------ *)

\* C1: no double fire. No entry's strategy function is executed a second time for a
\* candle-close boundary it was already executed for, however long executions take.
C1_NoDoubleFire == double_fired = {}

\* C1 witness: an entry was executed for the boundary minute the clock is in, its run
\* has ended in that minute, and a later tick of the same minute has passed over it
\* without dispatching it again.
C1_Witness ==
    /\ pc = "scan"
    /\ \E i \in 1..Len(strategies) :
         /\ idx > i
         /\ <<strategies[i].name, AbsMinute(now)>> \in fired
         /\ strategies[i].last_run # <<>>
         /\ AbsMinute(strategies[i].last_run[1]) = AbsMinute(now)
         /\ current_time > strategies[i].last_run[1]
         /\ strategies[i].name \notin dispatched

\* C2: never missing a boundary. While the loop runs, every boundary minute of an
\* entry's timeframe that began after start_scheduler computed the schedule and has
\* passed has had the entry's strategy executed for it.
C2_NoMissedBoundary ==
    (pc \notin {"setup", "done"} /\ running) =>
        \A i \in 1..Len(strategies) :
            \A m \in (AbsMinute(started_at[1]) + 1)..(AbsMinute(now) - 1) :
                is_candle_closed(m * SecondsPerMinute, strategies[i].timeframe)
                    => <<strategies[i].name, m>> \in fired

\* C3: successive next_execution values of an entry are strictly increasing and
\* exactly T minutes apart.
C3_NextExecutionSpacedByT ==
    [][\A i \in 1..Len(strategies) :
          (/\ strategies[i].next_execution # <<>>
           /\ strategies'[i].next_execution # strategies[i].next_execution)
          => strategies'[i].next_execution[1] =
                 strategies[i].next_execution[1]
                     + strategies[i].timeframe * SecondsPerMinute]_vars

\* C4: for every timeframe T and instant t, get_next_candle_time returns an instant
\* strictly later than t whose minutes-since-midnight index is a multiple of T.
C4_NextIsFutureBoundary ==
    at_res # <<>> =>
        /\ at_res[1] > at_t
        /\ MinutesSinceMidnight(at_res[1]) % at_T = 0

\* C5: every BUY, SELL or CLOSE result of an executed firing that has no record with
\* the same strategy, symbol, timestamp and kind in the trade log is appended to it
\* (the trade-log file being readable and writable).
C5_NovelActionableIsAppended ==
    last_eval # <<>> =>
        LET ev == last_eval[1]
        IN  (ev.signal \in Actionable /\ ev.novel /\ ev.io_ok) =>
                \E i \in 1..Len(trade_log.records) :
                    /\ trade_log.records[i].strategy_name = ev.name
                    /\ trade_log.records[i].symbol = ev.symbol
                    /\ trade_log.records[i].timestamp = ev.timestamp
                    /\ trade_log.records[i].signal = ev.signal

\* C6: the trade log never holds two records with the same strategy_name, symbol,
\* timestamp and signal.
C6_NoDuplicateRecords ==
    \A i, j \in 1..Len(trade_log.records) :
        i < j =>
            ~(/\ trade_log.records[i].strategy_name = trade_log.records[j].strategy_name
              /\ trade_log.records[i].symbol = trade_log.records[j].symbol
              /\ trade_log.records[i].timestamp = trade_log.records[j].timestamp
              /\ trade_log.records[i].signal = trade_log.records[j].signal)

\* C7: every record of the trade log has signal BUY, SELL or CLOSE; no HOLD, NO_SIGNAL,
\* NO_DATA, ERROR or None result is ever appended.
C7_OnlyActionableLogged ==
    \A i \in 1..Len(trade_log.records) : trade_log.records[i].signal \in Actionable

\* C7 witness: a HOLD result has just been handled while the trade log, which holds
\* an earlier record, did not grow by it.
C7_Witness ==
    /\ last_eval # <<>>
    /\ last_eval[1].signal = "HOLD"
    /\ Len(trade_log.records) >= 1
    /\ \A i \in 1..Len(trade_log.records) : trade_log.records[i].signal # "HOLD"

\* C8: add_strategy with an already registered name leaves the existing entry
\* unchanged.
C8_DuplicateAddKeepsEntry ==
    (last_add # <<>> /\ last_add[1].existed) =>
        strategies[IndexOfKey(strategies, last_add[1].name)] = last_add[1].before

\* C9: immediately after add_strategy the entry holds next_execution, the first
\* boundary after the registration time.
C9_RegistrationSetsNextExecution ==
    last_add # <<>> =>
        LET e == strategies[IndexOfKey(strategies, last_add[1].name)]
        IN  e.next_execution = <<get_next_candle_time(last_add[1].at, e.timeframe)>>

\* C10: an exception while evaluating one symbol is captured. The run still evaluates
\* every symbol of the entry, every entry due in the tick is still dispatched, and the
\* loop is left only through a stop request.
C10_SymbolErrorIsCaptured ==
    /\ pc = "finish" => evaluated = run.symbols
    /\ pc = "sleep" => due \subseteq dispatched
    /\ pc = "done" => (exit_cause = "stopped" /\ ~running)

\* C10 witness: the first symbol of the first entry raised, the entry's run still
\* completed in this pass, and the second entry was dispatched in the same pass.
C10_Witness ==
    /\ pc = "sleep"
    /\ Len(strategies) = 2
    /\ Len(strategies[1].symbols) = 2
    /\ err_at = <<strategies[1].name, 1>>
    /\ strategies[1].last_run # <<>>
    /\ strategies[1].last_run[1] >= current_time
    /\ dispatched = {strategies[1].name, strategies[2].name}

\* C11: a failed read or write of the trade log inside log_trade does not propagate.
\* log_trade returns normally, the run goes on with the next symbol and evaluates all
\* of them, the entry's next_execution is recomputed after the failure, and the loop
\* is left only through a stop request.
C11_LogFailureDoesNotPropagate ==
    /\ (last_eval # <<>> /\ last_eval[1].log_failed) =>
           /\ ~last_eval[1].raised
           /\ pc \in {"exec", "finish"}
           /\ sym = Len(evaluated) + 1
    /\ (pc = "finish" /\ log_err # <<>> /\ log_err[1] = run.name) =>
           evaluated = run.symbols
    /\ (pc \in {"scan", "sleep"} /\ log_err # <<>>) =>
           LET k == IndexOfKey(strategies, log_err[1])
           IN  k < idx =>
                 /\ strategies[k].last_run # <<>>
                 /\ strategies[k].last_run[1] >= log_err[3]
                 /\ strategies[k].next_execution # <<>>
                 /\ strategies[k].next_execution[1] > log_err[3]
    /\ pc = "done" => exit_cause = "stopped"

\* C11 witness: log_trade failed for the first of an entry's two symbols, the run was
\* completed, and the loop has come round to a later tick.
C11_Witness ==
    /\ pc = "sleep"
    /\ log_err # <<>>
    /\ log_err[2] = 1
    /\ Len(strategies[IndexOfKey(strategies, log_err[1])].symbols) = 2
    /\ strategies[IndexOfKey(strategies, log_err[1])].next_execution[1] > log_err[3]
    /\ io_failures = 1

\* C12: when two log_trade calls for two different signals run concurrently, then
\* once both have ended the trade log is a valid array that contains both records.
C12_ConcurrentAppendsKeepBoth ==
    (\A th \in LogThreads : lt_pc[th] \in {"returned", "failed"}) =>
        /\ trade_log.valid
        /\ \A th \in LogThreads :
              \E i \in 1..Len(trade_log.records) : trade_log.records[i] = lt_data[th]

\* C13: once stop_scheduler has set running to False, run_strategy_threaded is not
\* called for any entry any more, not even for entries due in the same tick.
C13_NoDispatchAfterStop ==
    [][~running => dispatched' \subseteq dispatched]_vars

\* C14: when the loop has been left and "Scheduler shutdown complete" is logged, no
\* strategy run is left unfinished, and the trade log is a valid array unless a read
\* or write of it failed.
C14_ShutdownDrainsInFlightWork ==
    pc = "done" =>
        /\ run = NoRun
        /\ io_failures = 0 => trade_log.valid

\* the records of a log file that have the timestamp and signal of new_signal
GateKeyCount(file, new_signal) ==
    Cardinality({i \in 1..Len(file.records) :
                    /\ file.records[i].timestamp = new_signal.timestamp
                    /\ file.records[i].signal = new_signal.signal})

C16_DedupKeyIgnoresOtherFields ==
    \A j, k \in 1..Len(g_seen) :
        (/\ j < k
         /\ g_seen[j] # <<>>
         /\ g_seen[k] # <<>>
         /\ g_answers[j] = FALSE
         /\ g_seen[j][1].timestamp = g_seen[k][1].timestamp
         /\ g_seen[j][1].signal = g_seen[k][1].signal)
        => g_answers[k] = TRUE

\* C16 witness: a BUY signal was saved, and a second BUY signal with the same
\* timestamp and another entry_price was reported as already logged.
C16_Witness ==
    /\ Len(g_seen) = 2
    /\ g_seen[1] # <<>>
    /\ g_seen[2] # <<>>
    /\ g_seen[1][1].signal = "BUY"
    /\ g_seen[2][1].signal = "BUY"
    /\ g_seen[1][1].timestamp = g_seen[2][1].timestamp
    /\ g_seen[1][1].entry_price # g_seen[2][1].entry_price
    /\ g_answers = <<FALSE, TRUE>>
    /\ Len(g_file.records) = Len(g_file0.records) + 1

\* C17: for a HOLD, NO_SIGNAL, NO_DATA or ERROR signal the gate of either module
\* answers True (do not persist), whatever the log holds.
C17_NonActionableNeverNovel ==
    \A k \in 1..Len(g_seen) :
        (g_seen[k] # <<>>
           /\ g_seen[k][1].signal \in {"HOLD", "NO_SIGNAL", "NO_DATA", "ERROR"})
        => g_answers[k] = TRUE

\* C18: when get_data fails or the provider returns nothing, the strategy returns a
\* result of kind NO_DATA.
C18_NoDataWhenProviderFails ==
    (s_result # <<>> /\ get_data(p_init, p_rates).raised # "none") =>
        s_result[1].signal = "NO_DATA"

\* C24: the dedup lookup is scoped to the signal's origin. A signal put through the
\* gate on an empty log after a signal of another strategy with the same timestamp
\* and kind was saved is reported as novel.
C24_DedupScopedToOrigin ==
    (/\ Len(g_seen) >= 2
     /\ g_file0 = [valid |-> TRUE, records |-> <<>>]
     /\ g_seen[1] # <<>>
     /\ g_seen[2] # <<>>
     /\ g_answers[1] = FALSE
     /\ g_seen[2][1].signal \in Actionable
     /\ g_seen[1][1].timestamp = g_seen[2][1].timestamp
     /\ g_seen[1][1].signal = g_seen[2][1].signal
     /\ g_seen[1][1].strategy # g_seen[2][1].strategy)
    => g_answers[2] = FALSE

\* C25: check-then-append is atomic per log. When two workers have run the check and
\* the save for the same signal on a log that did not hold it, the log holds exactly
\* one copy of it.
C25_CheckThenAppendAtomic ==
    (/\ \A w \in GateWorkers : w_pc[w] \in {"saved", "skipped"}
     /\ GateKeyCount(g_file0, w_signal[1]) = 0)
    => GateKeyCount(g_file, w_signal[1]) = 1

\* C19: whenever the loop moves on from an entry it dispatched, whether the run
\* executed the strategy or was skipped, the entry's next_execution has been
\* recomputed and is strictly later than the time of the recomputation.
C19_NextExecutionRecomputedLater ==
    [][(/\ pc \in {"scan", "finish"}
        /\ idx \in 1..Len(strategies)
        /\ idx' = idx + 1
        /\ strategies[idx].name \in dispatched')
       => /\ strategies'[idx].next_execution # <<>>
          /\ strategies'[idx].next_execution # strategies[idx].next_execution
          /\ strategies'[idx].next_execution[1] > now']_vars

\* C19 witness: in one pass an entry was dispatched and skipped by the candle-closed
\* check (it was never executed) and another was dispatched and executed; both hold a
\* next_execution later than the clock.
C19_Witness ==
    /\ pc = "sleep"
    /\ \E i, j \in 1..Len(strategies) :
          /\ strategies[i].name \in dispatched
          /\ strategies[i].last_run = <<>>
          /\ strategies[i].next_execution[1] > now
          /\ strategies[j].name \in dispatched
          /\ strategies[j].last_run # <<>>
          /\ strategies[j].last_run[1] >= current_time
          /\ strategies[j].next_execution[1] > now

\* C20: when the strategy execution of a dispatch starts, the entry's next_execution
\* has already been advanced past the current time.
C20_AdvancedBeforeExecution ==
    pc = "exec" => strategies[idx].next_execution[1] > current_time

\* a step in which the loop calls run_strategy_threaded for the entry at idx
DispatchStep ==
    /\ pc = "scan"
    /\ idx \in 1..Len(strategies)
    /\ dispatched' # dispatched

\* C21: a run that starts in a minute that is not a multiple of the entry's timeframe
\* is a skip. The strategy function is called for no symbol, the trade log and the
\* entry's last_run stay as they are, and no error is raised.
C21_SkipHasNoEffect ==
    [][(DispatchStep /\ MinutesSinceMidnight(now') % strategies[idx].timeframe # 0)
       => /\ pc' = "scan"
          /\ run' = NoRun
          /\ evaluated' = evaluated
          /\ fired' = fired
          /\ trade_log' = trade_log
          /\ strategies'[idx].last_run = strategies[idx].last_run
          /\ err_at' = err_at
          /\ exit_cause' = exit_cause]_vars

\* C21 witness: the loop has passed an entry it dispatched in this pass in a minute
\* that is no boundary of the entry's timeframe; the entry was never executed and
\* the trade log is empty.
C21_Witness ==
    /\ pc = "scan"
    /\ \E i \in 1..Len(strategies) :
          /\ i < idx
          /\ strategies[i].name \in dispatched
          /\ MinutesSinceMidnight(now) % strategies[i].timeframe # 0
          /\ strategies[i].last_run = <<>>
          /\ \A m \in AbsMinute(StartTime)..AbsMinute(now) :
                <<strategies[i].name, m>> \notin fired
    /\ trade_log = [valid |-> TRUE, records |-> <<>>]

\* C22: executions of different entries are independent. An entry that is due in a
\* tick whose minute is a boundary of its timeframe, and whose own dispatch takes no
\* time, is executed in that tick, whatever the entries before it did.
C22_EntriesAreIndependent ==
    [][(/\ DispatchStep
        /\ is_candle_closed(current_time, strategies[idx].timeframe)
        /\ now' = now)
       => pc' = "exec"]_vars

\* C23: no two executions of one entry are in flight. When an entry is dispatched no
\* run is in progress, and every earlier execution of the entry has ended (its
\* last_run lies after the boundary it was executed for).
C23_OneExecutionPerEntry ==
    [][DispatchStep
       => /\ run = NoRun
          /\ sym = 0
          /\ \A m \in AbsMinute(StartTime)..AbsMinute(now) :
                <<strategies[idx].name, m>> \in fired
                  => /\ strategies[idx].last_run # <<>>
                     /\ strategies[idx].last_run[1] >= m * SecondsPerMinute]_vars

\* C23 witness: an entry is being executed for the second time, for a later boundary
\* than the one its previous execution ended in.
C23_Witness ==
    /\ pc = "exec"
    /\ strategies[idx].last_run # <<>>
    /\ <<run.name, AbsMinute(strategies[idx].last_run[1])>> \in fired
    /\ <<run.name, AbsMinute(now)>> \in fired
    /\ AbsMinute(now) > AbsMinute(strategies[idx].last_run[1])

\* C26: once stop_scheduler was called while the loop runs, the loop eventually
\* reaches "Scheduler shutdown complete" with no run left unfinished; at the top of a
\* tick with the flag cleared it leaves rather than starting a pass; a run in flight
\* is not cut short, it goes on to its end.
C26_StopLeadsToShutdown ==
    /\ (~running /\ pc # "setup")
          ~> (pc = "done" /\ exit_cause = "stopped" /\ run = NoRun)
    /\ [][(pc = "loop_top" /\ ~running) => pc' \in {"loop_top", "done"}]_vars
    /\ [][pc = "exec" => pc' \in {"exec", "finish"}]_vars

\* C26 witness: the loop has left after a stop request, and an execution ended after
\* the request (later than the scheduler could have run unstopped).
C26_Witness ==
    /\ pc = "done"
    /\ exit_cause = "stopped"
    /\ ~running
    /\ \E i \in 1..Len(strategies) :
          /\ strategies[i].last_run # <<>>
          /\ strategies[i].last_run[1] > EndTime

\* C27: timeframes share their origin. Where is_candle_closed is true for a timeframe
\* it is true for every timeframe dividing it, and at minute 0 of the day it is true
\* for every timeframe.
C27_SharedOrigin ==
    at_closed # <<>> =>
        /\ at_closed[1] =>
              \A T1 \in AlignerTimeframes :
                  at_T % T1 = 0 => is_candle_closed(at_t, T1)
        /\ MinutesSinceMidnight(at_t) = 0 => at_closed[1]

\* C27 witness: 10:00:30 was found to be a 60-minute boundary, and it is a 15-minute
\* boundary.
C27_Witness ==
    /\ at_closed = <<TRUE>>
    /\ at_T = 60
    /\ at_t = (10 * MinutesPerHour) * SecondsPerMinute + 30
    /\ is_candle_closed(at_t, 15)

\* C28: get_next_candle_time adds d whole minutes to the current time, where
\* d = T - (minutes_since_midnight mod T) and 1 <= d <= T; on a boundary d = T; the
\* seconds of the current time are carried into the result.
C28_NextAddsWholeMinutes ==
    at_res # <<>> =>
        LET delta == at_res[1] - at_t
            d == delta \div SecondsPerMinute
        IN  /\ delta % SecondsPerMinute = 0
            /\ d = at_T - (MinutesSinceMidnight(at_t) % at_T)
            /\ 1 <= d
            /\ d <= at_T
            /\ MinutesSinceMidnight(at_t) % at_T = 0 => d = at_T
            /\ at_res[1] % SecondsPerMinute = at_t % SecondsPerMinute

\* C28 witness: called at 10:00:30, a boundary of timeframe 15, the function returned
\* 10:15:30.
C28_Witness ==
    /\ at_T = 15
    /\ at_t = (10 * MinutesPerHour) * SecondsPerMinute + 30
    /\ at_res = <<(10 * MinutesPerHour + 15) * SecondsPerMinute + 30>>

\* C29: the timestamp of a logged signal identifies its source candle. Two records of
\* one strategy and symbol written while different candles were the latest ones have
\* different timestamps.
C29_TimestampIdentifiesCandle ==
    \A i, j \in 1..Len(trade_log.records) :
        LET a == trade_log.records[i]
            b == trade_log.records[j]
        IN  (/\ a.strategy_name = b.strategy_name
             /\ a.symbol = b.symbol
             /\ a.timeframe_minutes = b.timeframe_minutes
             /\ LatestCandle(a.candle_close_time, get_mt5_timeframe(a.timeframe_minutes))
                  # LatestCandle(b.candle_close_time,
                                 get_mt5_timeframe(b.timeframe_minutes)))
            => a.timestamp # b.timestamp

\* the strategy executions in flight: the run the loop's thread is inside, if any
InFlight == IF run # NoRun THEN {run.name} ELSE {}

C32_LogIsAppendOnly ==
    [][/\ trade_log'.valid
       /\ Len(trade_log'.records) \in
             {Len(trade_log.records), Len(trade_log.records) + 1}
       /\ SubSeq(trade_log'.records, 1, Len(trade_log.records)) = trade_log.records
       /\ (last_eval' # <<>> /\ last_eval'[1].log_failed) => trade_log' = trade_log
       /\ Len(trade_log'.records) > Len(trade_log.records) =>
             trade_log'.records[Len(trade_log'.records)].logged_at = now']_vars

\* C33: constructing the scheduler leaves an existing trade log untouched. The file
\* is set to an empty array only when it did not exist; otherwise it holds after the
\* construction exactly what it held before.
C33_ConstructionKeepsLog ==
    c_pc = "constructed" =>
        /\ c_file # <<>> => trade_log = c_file[1]
        /\ c_file = <<>> => trade_log = [valid |-> TRUE, records |-> <<>>]

\* C33 witness: the scheduler was constructed on a directory whose trade log held two
\* records, and the log still holds them.
C33_Witness ==
    /\ c_pc = "constructed"
    /\ c_file # <<>>
    /\ c_file[1].valid
    /\ Len(c_file[1].records) = 2
    /\ trade_log.valid
    /\ trade_log.records = c_file[1].records

\* C34: an entry's strategy is evaluated on candles of the timeframe the entry is
\* scheduled on. _get_mt5_timeframe maps different supported minute values to
\* different provider timeframes, and the provider timeframe a strategy function is
\* called with is the entry's timeframe_minutes.
C34_EvaluatedOnScheduledTimeframe ==
    /\ \A a, b \in SupportedTimeframes :
          a # b => get_mt5_timeframe(a) # get_mt5_timeframe(b)
    /\ last_eval # <<>> => last_eval[1].mt5_timeframe = last_eval[1].timeframe

\* C35: an entry's last_run is None until its first executed firing, is set to the
\* clock at the end of every executed firing even when symbols failed, is changed by
\* nothing else (a skipped firing leaves it), and never decreases; no registered name
\* disappears.
C35_LastRunAndNamesOnlyGrow ==
    [][/\ Len(strategies') >= Len(strategies)
       /\ \A i \in 1..Len(strategies) :
             /\ strategies'[i].name = strategies[i].name
             /\ (strategies[i].last_run = <<>> /\ strategies'[i].last_run # <<>>)
                   => \E m \in AbsMinute(StartTime)..AbsMinute(now) :
                         <<strategies[i].name, m>> \in fired
             /\ strategies'[i].last_run # strategies[i].last_run
                   => /\ pc = "finish"
                      /\ strategies[i].name = run.name
                      /\ strategies'[i].last_run = <<now>>
                      /\ strategies[i].last_run # <<>>
                            => strategies[i].last_run[1] <= now
       /\ (pc = "finish" /\ pc' # "finish")
             => strategies'[IndexOfKey(strategies, run.name)].last_run = <<now>>
       /\ (pc \notin {"exec", "finish"} /\ pc' \notin {"exec", "finish"})
             => \A i \in 1..Len(strategies') :
                   (\E m \in AbsMinute(StartTime)..AbsMinute(now') :
                       <<strategies'[i].name, m>> \in fired')
                   <=> strategies'[i].last_run # <<>>]_vars

\* C35 witness: the first symbol of an entry with two symbols raised in this pass,
\* the firing went on to its end and the entry's last_run was set in this pass.
C35_Witness ==
    /\ pc \in {"scan", "sleep"}
    /\ err_at # <<>>
    /\ err_at[2] = 1
    /\ LET e == strategies[IndexOfKey(strategies, err_at[1])]
       IN  /\ Len(e.symbols) = 2
           /\ e.last_run # <<>>
           /\ e.last_run[1] >= current_time

\* C36: add_strategy called once start_scheduler has computed the schedule never ends
\* the loop. The loop is left only through a stop request or a user interrupt.
C36_LateAddKeepsLoopRunning ==
    pc = "done" => exit_cause \in {"stopped", "KeyboardInterrupt"}

\* C31: with a single entry whose executions take no time, every dispatch made by the
\* loop passes the candle-closed check of run_strategy_threaded and executes the
\* strategy; none lands in the minute after the boundary.
C31_DispatchPassesRevalidation ==
    [][DispatchStep => (pc' = "exec" /\ is_candle_closed(now', strategies[idx].timeframe))]_vars

====
